---- MODULE Spec2Model ----
(***************************************************************************)
(* Model of manim/cli/init/commands.py: the `manim init` subcommands       *)
(* `project` and `scene`, and the helpers select_resolution and update_cfg.*)
(*                                                                         *)
(* Three specifications share the module:                                  *)
(*   SpecCfg     - update_cfg called repeatedly on one manim.cfg file      *)
(*   SpecProject - runs of the `project` command on a set of directories   *)
(*   SpecScene   - runs of the `scene` command on a set of target files    *)
(***************************************************************************)
EXTENDS Integers, Sequences, FiniteSets, TLC

VARIABLES
    store,      \* SpecCfg: the manim.cfg file update_cfg works on
    pre_store,  \* the file as it was when the latest update_cfg call read it
    last_cfg,   \* cfg_dict of the latest update_cfg call
    repeat,     \* latest update_cfg call repeated the cfg_dict of the call before it
    dirs,       \* SpecProject: project_name -> directory on disk
    pre_dirs,   \* SpecProject: dirs as the latest `project` invocation found them
    pc,         \* SpecProject: where the running `project` command is suspended
    cur,        \* SpecProject: arguments / prompt answers of the running command
    new_cfg,    \* SpecProject: the new_cfg dict of the running command
    run_log,    \* SpecProject: side effects of the latest command run, in order
    console,    \* SpecProject: message printed by the latest command run
    files,      \* SpecScene: path -> file on disk
    imports,    \* SpecScene: path -> number of add_import_statement calls on it
    created,    \* SpecScene: path -> number of insertions that created it
    last,       \* SpecScene: the latest `scene` invocation
    original,   \* SpecScene: path -> content the file started with
    first,      \* SpecScene: path -> content after the first insertion into it
    insertions, \* SpecScene: number of `scene` invocations so far
    op,         \* name of the latest operation
    raised      \* exception the latest operation ended with, or "none"

vars == <<store, pre_store, last_cfg, repeat, dirs, pre_dirs, pc, cur, new_cfg, run_log,
          console, files, imports, created, last, original, first, insertions,
          op, raised>>

cfgVars     == <<store, pre_store, last_cfg, repeat>>
projectVars == <<dirs, pre_dirs, pc, cur, new_cfg, run_log, console>>
sceneVars   == <<files, imports, created, last, original, first, insertions>>

-----------------------------------------------------------------------------
(* Python values that appear in a cfg_dict: ints, strs and 2-tuples of ints *)

PyInt(n)      == [kind |-> "int",   n |-> n, s |-> "", a |-> 0, b |-> 0]
PyStr(s)      == [kind |-> "str",   n |-> 0, s |-> s,  a |-> 0, b |-> 0]
PyTuple(a, b) == [kind |-> "tuple", n |-> 0, s |-> "", a |-> a, b |-> b]

\* str(value) for the scalar values
str(value) == IF value.kind = "int" THEN ToString(value.n) ELSE value.s

\* value[0] and value[1] of a tuple, as Python ints
Item0(value) == PyInt(value.a)
Item1(value) == PyInt(value.b)

-----------------------------------------------------------------------------
(* configparser: a file is a set of named sections, each a mapping from    *)
(* option name to string value.                                            *)

NoSections == [s \in {} |-> <<>>]
NoOptions  == [k \in {} |-> ""]

AbsentFile == [exists |-> FALSE, sections |-> NoSections]

\* ConfigParser.optionxform: option names are lower-cased
optionxform(option) ==
    CASE option = "Frame_Rate" -> "frame_rate"
      [] option = "FRAME_RATE" -> "frame_rate"
      [] OTHER -> option

\* What a value written by ConfigParser.write reads back as: the parser
\* strips the whitespace around a value.
StripValue(value) ==
    CASE value = " BLACK" -> "BLACK"
      [] value = "WHITE " -> "WHITE"
      [] OTHER -> value

\* SetOption with the assignment turned into an accumulation (+=)
SetOptionAccumulate(section, key, value) ==
    [k \in (DOMAIN section) \cup {optionxform(key)} |->
        IF k = optionxform(key)
        THEN (IF k \in DOMAIN section THEN section[k] \o value ELSE value)
        ELSE section[k]]

\* cli_config[key] = value   (SectionProxy.__setitem__ -> RawConfigParser.set)
SetOption(section, key, value) ==
    [k \in (DOMAIN section) \cup {optionxform(key)} |->
        IF k = optionxform(key) THEN value ELSE section[k]]

\* the for loop of update_cfg over cfg_dict.items(), in insertion order
RECURSIVE ApplyItems(_, _)
ApplyItems(cli_config, items) ==
    IF items = <<>> THEN cli_config
    ELSE LET key   == Head(items)[1]
             value == Head(items)[2]
         IN  ApplyItems(
                IF key = "resolution"
                THEN SetOption(SetOption(cli_config, "pixel_width", str(Item0(value))),
                               "pixel_height", str(Item1(value)))
                ELSE SetOption(cli_config, key, str(value)),
                Tail(items))

\* config.write(conf) into the truncated file, as a later config.read sees it
WriteConfig(sections) ==
    [exists   |-> TRUE,
     sections |-> [s \in DOMAIN sections |->
                     [k \in DOMAIN sections[s] |-> StripValue(sections[s][k])]]]

\* update_cfg writing back only the section it updated
update_cfg_only_cli(cfg_dict, file) ==
    IF "CLI" \notin DOMAIN file.sections
    THEN [file |-> file, raised |-> "KeyError"]
    ELSE [file   |-> WriteConfig([s \in {"CLI"} |->
                                    ApplyItems(file.sections["CLI"], cfg_dict)]),
          raised |-> "none"]

\* update_cfg adding the section when the file lacks it
update_cfg_add_section(cfg_dict, file) ==
    [file   |-> WriteConfig([s \in (DOMAIN file.sections) \cup {"CLI"} |->
                    IF s = "CLI"
                    THEN ApplyItems(IF "CLI" \in DOMAIN file.sections
                                    THEN file.sections["CLI"] ELSE NoOptions,
                                    cfg_dict)
                    ELSE file.sections[s]]),
     raised |-> "none"]

\* update_cfg(cfg_dict, project_cfg_path): file is the content at the path.
\* config.read ignores a missing file; config["CLI"] raises KeyError when the
\* section is missing, before the file is opened for writing.
update_cfg(cfg_dict, file) ==
    IF "CLI" \notin DOMAIN file.sections
    THEN [file |-> file, raised |-> "KeyError"]
    ELSE [file   |-> WriteConfig([file.sections EXCEPT
                                    !["CLI"] = ApplyItems(@, cfg_dict)]),
          raised |-> "none"]

-----------------------------------------------------------------------------
(* Inputs of SpecCfg *)

MaxCfgLen == 2

CfgKeys == {"Frame_Rate", "resolution", "pixel_width"}

ScalarValues == {PyInt(60), PyStr(" BLACK")}
TupleValues  == {PyTuple(1280, 720), PyTuple(854, 480)}

CfgItems ==
    {<<k, v>> : k \in CfgKeys \ {"resolution"}, v \in ScalarValues}
    \cup {<<"resolution", v>> : v \in TupleValues}

DictKeys(d) == {d[i][1] : i \in DOMAIN d}

\* dicts: insertion-ordered, keys distinct
RECURSIVE DictsUpTo(_)
DictsUpTo(n) ==
    IF n = 0 THEN {<<>>}
    ELSE LET shorter == DictsUpTo(n - 1)
         IN  shorter \cup
             {Append(d, it) : <<d, it>> \in
                 {p \in shorter \X CfgItems : p[2][1] \notin DictKeys(p[1])}}

CfgDicts == DictsUpTo(MaxCfgLen)

StoreKeys   == {"frame_rate", "media_dir"}
StoreValues == {"30"}

SectionContents ==
    UNION {[K -> StoreValues] : K \in SUBSET StoreKeys}

LoggerContents ==
    {[k \in {"logging_level"} |-> "INFO"], [k \in {"frame_rate"} |-> "15"]}

InitialStores ==
    {AbsentFile, [exists |-> TRUE, sections |-> NoSections]}
    \cup {[exists |-> TRUE, sections |-> [s \in {"CLI"} |-> c]] :
             c \in SectionContents}
    \cup {[exists |-> TRUE, sections |-> [s \in {"logger"} |-> l]] :
             l \in LoggerContents}
    \cup {[exists |-> TRUE,
           sections |-> [s \in {"CLI", "logger"} |->
                            IF s = "CLI" THEN c ELSE l]] :
             c \in SectionContents, l \in LoggerContents}

-----------------------------------------------------------------------------
(* Initial values of the variables a specification does not use *)

CfgIdle ==
    /\ store = AbsentFile
    /\ pre_store = AbsentFile
    /\ last_cfg = <<>>
    /\ repeat = FALSE

ProjectNames  == {"proj", "demo"}

\* get_template_names(): the names in the template store
TemplateNames == {"Default", "MovingCamera"}

AbsentDir == [exists |-> FALSE, copied |-> "", cfg |-> AbsentFile]
EmptyDir  == [exists |-> TRUE,  copied |-> "", cfg |-> AbsentFile]

NoRun == [project_name |-> "", default_settings |-> FALSE,
          template_name |-> "", choice |-> ""]

ProjectIdle ==
    /\ pc = "idle"
    /\ cur = NoRun
    /\ new_cfg = <<>>
    /\ run_log = <<>>
    /\ console = ""
    /\ dirs = [n \in ProjectNames |-> AbsentDir]
    /\ pre_dirs = dirs

\* a path as the parts pathlib works on: the name up to the last suffix, and
\* the last suffix
NoFileName == [stem |-> "", suffix |-> ""]
MainPy     == [stem |-> "main", suffix |-> ".py"]

PathStr(path) == path.stem \o path.suffix

\* file_name.with_suffix(suffix)
with_suffix(path, suffix) == [stem |-> path.stem, suffix |-> suffix]

\* Path(kwargs["file_name"]), given the ".py" suffix when it does not end in it
TargetOf(file_name) ==
    IF file_name.suffix # ".py"
    THEN with_suffix(file_name, file_name.suffix \o ".py")
    ELSE file_name

\* the FILE arguments tried; NoFileName is the argument left out
ExplicitFileNames ==
    {[stem |-> "demo", suffix |-> ""],
     [stem |-> "demo", suffix |-> ".py"],
     [stem |-> "demo", suffix |-> ".txt"],
     [stem |-> "main", suffix |-> ""]}

TargetPaths == {PathStr(TargetOf(f)) : f \in ExplicitFileNames} \cup {PathStr(MainPy)}

AbsentTarget == [exists |-> FALSE, content |-> <<>>]

NoScene == [scene_name |-> <<>>, file_name |-> NoFileName, template_name |-> "",
            stub |-> <<>>, target |-> "", existed |-> FALSE, before |-> <<>>]

SceneIdle ==
    /\ files = [p \in TargetPaths |-> AbsentTarget]
    /\ imports = [p \in TargetPaths |-> 0]
    /\ created = [p \in TargetPaths |-> 0]
    /\ original = [p \in TargetPaths |-> <<>>]
    /\ first = [p \in TargetPaths |-> <<>>]
    /\ last = NoScene
    /\ insertions = 0

-----------------------------------------------------------------------------
(* SpecCfg: update_cfg called on one file *)

InitCfg ==
    /\ store \in InitialStores
    /\ pre_store = store
    /\ last_cfg = <<>>
    /\ repeat = FALSE
    /\ op = "init"
    /\ raised = "none"
    /\ ProjectIdle
    /\ SceneIdle

UpdateCfg ==
    \E cfg_dict \in CfgDicts :
        LET r == update_cfg(cfg_dict, store)
        IN  /\ store' = r.file
            /\ raised' = r.raised
            /\ pre_store' = store
            /\ last_cfg' = cfg_dict
            /\ repeat' = (op = "update_cfg" /\ raised = "none" /\ cfg_dict = last_cfg)
            /\ op' = "update_cfg"
            /\ UNCHANGED <<projectVars, sceneVars>>

NextCfg == UpdateCfg

SpecCfg == InitCfg /\ [][NextCfg]_vars

-----------------------------------------------------------------------------
(* Properties of update_cfg, checked under SpecCfg *)

\* cfg_dict names the option literally
MentionsLiterally(cfg_dict, option) ==
    \E i \in DOMAIN cfg_dict :
        \/ cfg_dict[i][1] = option
        \/ cfg_dict[i][1] = "resolution" /\ option \in {"pixel_width", "pixel_height"}

\* cfg_dict names the option as configparser compares option names
Mentions(cfg_dict, option) ==
    \E i \in DOMAIN cfg_dict :
        \/ optionxform(cfg_dict[i][1]) = option
        \/ cfg_dict[i][1] = "resolution" /\ option \in {"pixel_width", "pixel_height"}

OtherSectionsSurvive ==
    \A s \in (DOMAIN pre_store.sections) \ {"CLI"} :
        /\ s \in DOMAIN store.sections
        /\ store.sections[s] = pre_store.sections[s]

UpdatedStoreWithCLI ==
    /\ op = "update_cfg"
    /\ "CLI" \in DOMAIN pre_store.sections

\* C1 as stated: after update_cfg on a store that has the CLI section, every
\* other section, and every CLI key that cfg_dict does not name (and that is
\* not pixel_width/pixel_height when cfg_dict has "resolution"), has the value
\* it had before the call.
C1_UnmentionedKeysSurvive_AsStated ==
    UpdatedStoreWithCLI =>
        /\ OtherSectionsSurvive
        /\ "CLI" \in DOMAIN store.sections
        /\ \A k \in DOMAIN pre_store.sections["CLI"] :
              ~MentionsLiterally(last_cfg, k) =>
                  /\ k \in DOMAIN store.sections["CLI"]
                  /\ store.sections["CLI"][k] = pre_store.sections["CLI"][k]

\* C1 amended: the same, where a CLI key counts as named by cfg_dict when a
\* key of cfg_dict equals it after lower-casing (configparser's option names
\* are case-insensitive).
C1_UnmentionedKeysSurvive ==
    UpdatedStoreWithCLI =>
        /\ OtherSectionsSurvive
        /\ "CLI" \in DOMAIN store.sections
        /\ \A k \in DOMAIN pre_store.sections["CLI"] :
              ~Mentions(last_cfg, k) =>
                  /\ k \in DOMAIN store.sections["CLI"]
                  /\ store.sections["CLI"][k] = pre_store.sections["CLI"][k]

\* a call that changed the CLI section while another section and an
\* unnamed CLI key were present
C1_Witness ==
    /\ UpdatedStoreWithCLI
    /\ raised = "none"
    /\ "logger" \in DOMAIN pre_store.sections
    /\ store # pre_store
    /\ \E k \in DOMAIN pre_store.sections["CLI"] : ~Mentions(last_cfg, k)
    /\ \E i \in DOMAIN last_cfg : last_cfg[i][1] = "resolution"

\* C7: update_cfg is idempotent: a call that repeats the cfg_dict of the
\* successful call right before it leaves the sections, keys and values of
\* the store as that first call left them.
C7_Idempotent ==
    (op = "update_cfg" /\ repeat) =>
        /\ raised = "none"
        /\ store.sections = pre_store.sections

\* a non-empty cfg_dict applied twice in a row, the first application having
\* changed the store
C7_Witness ==
    /\ op = "update_cfg"
    /\ repeat
    /\ Len(last_cfg) = MaxCfgLen
    /\ \E i \in DOMAIN last_cfg : last_cfg[i][2] = PyStr(" BLACK")

-----------------------------------------------------------------------------
(* The `project` command *)

CFG_DEFAULTS_swapped ==
    << <<"frame_rate", PyInt(30)>>,
       <<"background_color", PyStr("BLACK")>>,
       <<"background_opacity", PyInt(1)>>,
       <<"scene_names", PyStr("Default")>>,
       <<"resolution", PyTuple(480, 854)>> >>

\* the CFG_DEFAULTS dict, in insertion order
CFG_DEFAULTS ==
    << <<"frame_rate", PyInt(30)>>,
       <<"background_color", PyStr("BLACK")>>,
       <<"background_opacity", PyInt(1)>>,
       <<"scene_names", PyStr("Default")>>,
       <<"resolution", PyTuple(854, 480)>> >>

\* manim.constants.QUALITIES, in insertion order; the last entry is the one
\* select_resolution pops
QUALITIES ==
    << [name |-> "fourk_quality",      pixel_height |-> 2160, pixel_width |-> 3840],
       [name |-> "production_quality", pixel_height |-> 1440, pixel_width |-> 2560],
       [name |-> "high_quality",       pixel_height |-> 1080, pixel_width |-> 1920],
       [name |-> "medium_quality",     pixel_height |-> 720,  pixel_width |-> 1280],
       [name |-> "low_quality",        pixel_height |-> 480,  pixel_width |-> 854],
       [name |-> "example_quality",    pixel_height |-> 480,  pixel_width |-> 854] >>

\* resolution_options after the loop and the pop()
resolution_options ==
    [i \in 1 .. (Len(QUALITIES) - 1) |->
        PyTuple(QUALITIES[i].pixel_height, QUALITIES[i].pixel_width)]

\* f"{res[0]}p"
Label(res) == ToString(res.a) \o "p"

\* the choices click.prompt offers
ResolutionChoices == {Label(resolution_options[i]) : i \in DOMAIN resolution_options}

IsChoice(res, choice) == Label(res) = choice

\* select_resolution(), given what the user chose at the prompt
select_resolution(choice) ==
    LET matches == SelectSeq(resolution_options, LAMBDA res : IsChoice(res, choice))
    IN  matches[1]

\* the answers click.prompt returns for the other keys (typed by the default)
PromptAnswers ==
    [frame_rate : {PyInt(30), PyInt(60)},
     background_color : {PyStr("BLACK")},
     background_opacity : {PyInt(1)}]

\* the loop over CFG_DEFAULTS.items() that fills new_cfg
BuildNewCfg(template_name, answers, choice) ==
    [i \in DOMAIN CFG_DEFAULTS |->
        LET key == CFG_DEFAULTS[i][1]
        IN  <<key,
              IF key = "scene_names" THEN PyStr(template_name \o "Template")
              ELSE IF key = "resolution" THEN select_resolution(choice)
              ELSE answers[key]>>]

is_dir_never(ds, project_name) == FALSE

\* project_name.is_dir()
is_dir(ds, project_name) == ds[project_name].exists

\* project_name.mkdir()
mkdir(ds, project_name) == [ds EXCEPT ![project_name] = EmptyDir]

\* the manim.cfg a template can bring along
TemplateCfgs ==
    {AbsentFile,
     [exists |-> TRUE, sections |-> [s \in {"logger"} |-> [k \in {"logging_level"} |-> "INFO"]]],
     [exists |-> TRUE,
      sections |-> [s \in {"CLI"} |->
                      [k \in {"frame_rate", "media_dir"} |->
                          IF k = "frame_rate" THEN "60" ELSE "./media"]]],
     [exists |-> TRUE,
      sections |-> [s \in {"CLI", "logger"} |->
                      IF s = "CLI" THEN NoOptions
                      ELSE [k \in {"logging_level"} |-> "INFO"]]]}

\* copy_template_files(project_name, template_name): the template's files,
\* its manim.cfg among them, are copied into the directory
copy_template_files(ds, project_name, template_name, template_cfg) ==
    [ds EXCEPT ![project_name] =
        [exists |-> TRUE, copied |-> template_name, cfg |-> template_cfg]]

\* declining at the prompt with a clean-up of the new directory
AfterAbortRollback(ds, project_name) == [ds EXCEPT ![project_name] = AbsentDir]

\* click.confirm(..., abort=True) answered no: click.Abort leaves the command,
\* nothing is undone
AfterAbort(ds, project_name) == ds

FolderExistsMessage == "Folder exists. Please type another name"

\* copy_template_files followed by update_cfg(cfg, new_cfg_path)
CopyAndUpdate(ds, project_name, template_name, template_cfg, cfg) ==
    LET copied == copy_template_files(ds, project_name, template_name, template_cfg)
        r      == update_cfg(cfg, copied[project_name].cfg)
    IN  [dirs   |-> [copied EXCEPT ![project_name].cfg = r.file],
         read   |-> copied[project_name].cfg,
         raised |-> r.raised,
         log    |-> <<"copy_template_files">> \o
                    (IF r.raised = "none" THEN <<"write">> ELSE <<>>)]

InitProject ==
    /\ CfgIdle
    /\ ProjectIdle
    /\ SceneIdle
    /\ op = "init"
    /\ raised = "none"

\* `project` on a name that is a directory already
ProjectFolderExists ==
    \E project_name \in ProjectNames, default_settings \in BOOLEAN,
       template_name \in TemplateNames :
        /\ pc = "idle"
        /\ is_dir(dirs, project_name)
        /\ cur' = [project_name |-> project_name, default_settings |-> default_settings,
                   template_name |-> template_name, choice |-> ""]
        /\ console' = FolderExistsMessage
        /\ pre_dirs' = dirs
        /\ run_log' = <<>>
        /\ new_cfg' = <<>>
        /\ raised' = "none"
        /\ op' = "project"
        /\ UNCHANGED <<dirs, pc, cfgVars, sceneVars>>

\* `project --default` on a new name
ProjectDefault ==
    \E project_name \in ProjectNames, template_name \in TemplateNames,
       template_cfg \in TemplateCfgs :
        /\ pc = "idle"
        /\ ~is_dir(dirs, project_name)
        /\ LET r == CopyAndUpdate(mkdir(dirs, project_name), project_name,
                                  template_name, template_cfg, CFG_DEFAULTS)
           IN  /\ dirs' = r.dirs
               /\ pre_store' = r.read
               /\ raised' = r.raised
               /\ run_log' = <<"mkdir">> \o r.log
        /\ cur' = [project_name |-> project_name, default_settings |-> TRUE,
                   template_name |-> template_name, choice |-> ""]
        /\ console' = ""
        /\ pre_dirs' = dirs
        /\ new_cfg' = <<>>
        /\ op' = "project"
        /\ UNCHANGED <<pc, store, last_cfg, repeat, sceneVars>>

\* `project` without --default on a new name, up to the first settings prompt
ProjectInteractive ==
    \E project_name \in ProjectNames, template_name \in TemplateNames :
        /\ pc = "idle"
        /\ ~is_dir(dirs, project_name)
        /\ dirs' = mkdir(dirs, project_name)
        /\ run_log' = <<"mkdir">>
        /\ cur' = [project_name |-> project_name, default_settings |-> FALSE,
                   template_name |-> template_name, choice |-> ""]
        /\ console' = ""
        /\ pre_dirs' = dirs
        /\ new_cfg' = <<>>
        /\ raised' = "none"
        /\ op' = "project"
        /\ pc' = "prompts"
        /\ UNCHANGED <<cfgVars, sceneVars>>

\* the prompts that fill new_cfg, up to the confirmation prompt
ProjectPrompts ==
    \E answers \in PromptAnswers, choice \in ResolutionChoices :
        /\ pc = "prompts"
        /\ new_cfg' = BuildNewCfg(cur.template_name, answers, choice)
        /\ cur' = [cur EXCEPT !.choice = choice]
        /\ console' = "new_cfg"
        /\ op' = "prompts"
        /\ pc' = "confirm"
        /\ UNCHANGED <<dirs, pre_dirs, run_log, raised, cfgVars, sceneVars>>

\* "Do you want to continue?" answered yes
ProjectConfirmYes ==
    \E template_cfg \in TemplateCfgs :
        /\ pc = "confirm"
        /\ LET r == CopyAndUpdate(dirs, cur.project_name, cur.template_name,
                                  template_cfg, new_cfg)
           IN  /\ dirs' = r.dirs
               /\ pre_store' = r.read
               /\ raised' = r.raised
               /\ run_log' = run_log \o <<"confirm">> \o r.log
        /\ op' = "confirm"
        /\ pc' = "idle"
        /\ UNCHANGED <<pre_dirs, cur, new_cfg, console, store, last_cfg, repeat, sceneVars>>

\* "Do you want to continue?" answered no
ProjectConfirmNo ==
    /\ pc = "confirm"
    /\ dirs' = AfterAbort(dirs, cur.project_name)
    /\ raised' = "Abort"
    /\ run_log' = run_log \o <<"confirm">>
    /\ op' = "confirm"
    /\ pc' = "idle"
    /\ UNCHANGED <<pre_dirs, cur, new_cfg, console, cfgVars, sceneVars>>

NextProject ==
    \/ ProjectFolderExists
    \/ ProjectDefault
    \/ ProjectInteractive
    \/ ProjectPrompts
    \/ ProjectConfirmYes
    \/ ProjectConfirmNo

SpecProject == InitProject /\ [][NextProject]_vars

-----------------------------------------------------------------------------
(* Properties of the `project` command, checked under SpecProject *)

Events(log) == {log[i] : i \in DOMAIN log}

CurDir == dirs[cur.project_name]

\* the catalog entry whose label the user chose
SelectedTier ==
    QUALITIES[CHOOSE i \in 1 .. (Len(QUALITIES) - 1) :
                 ToString(QUALITIES[i].pixel_height) \o "p" = cur.choice]

\* C2: after a confirmed interactive run, pixel_width is the width and
\* pixel_height the height of the resolution tier the user selected.
C2_SelectedTierPersisted ==
    (op = "confirm" /\ raised = "none") =>
        /\ CurDir.cfg.sections["CLI"]["pixel_width"] = ToString(SelectedTier.pixel_width)
        /\ CurDir.cfg.sections["CLI"]["pixel_height"] = ToString(SelectedTier.pixel_height)

InvokedOnExistingDir ==
    /\ op = "project"
    /\ pre_dirs[cur.project_name].exists

\* C5 as stated: `project` on a name that is a directory already fails with
\* an already-exists error and changes nothing on disk.
C5_ExistingDirFails_AsStated ==
    InvokedOnExistingDir =>
        /\ raised = "AlreadyExistsError"
        /\ dirs = pre_dirs
        /\ run_log = <<>>

\* C5 amended: `project` on a name that is a directory already prints the
\* "Folder exists" message and returns without raising; it performs no
\* mkdir, no template copy and no config write, whatever the flag and the
\* template answer, so every directory is as the earlier call left it.
C5_ExistingDirUntouched ==
    InvokedOnExistingDir =>
        /\ raised = "none"
        /\ console = FolderExistsMessage
        /\ dirs = pre_dirs
        /\ run_log = <<>>
        /\ pc = "idle"

\* a second call on a project a first call filled
C5_Witness ==
    /\ InvokedOnExistingDir
    /\ CurDir.copied # ""
    /\ "CLI" \in DOMAIN CurDir.cfg.sections
    /\ cur.default_settings

\* C6: on the interactive path nothing is copied or written before the
\* confirmation prompt is answered, and after a "no" the run has ended with
\* neither a copy nor a write and the new directory is still there, empty.
C6_NothingBeforeConfirmation ==
    /\ pc \in {"prompts", "confirm"} =>
          /\ CurDir = EmptyDir
          /\ run_log = <<"mkdir">>
    /\ ~cur.default_settings =>
          \A i \in DOMAIN run_log :
              run_log[i] \in {"copy_template_files", "write"} =>
                  \E j \in 1 .. (i - 1) : run_log[j] = "confirm"
    /\ raised = "Abort" =>
          /\ CurDir = EmptyDir
          /\ run_log = <<"mkdir", "confirm">>
          /\ pc = "idle"

\* the user declined
C6_Witness ==
    /\ raised = "Abort"
    /\ op = "confirm"
    /\ new_cfg # <<>>

UpdateCfgReached ==
    /\ op \in {"project", "confirm"}
    /\ "copy_template_files" \in Events(run_log)

\* C8: when the manim.cfg update_cfg reads has no CLI section (the file may
\* be missing or empty), update_cfg raises before writing and the file stays
\* as it was; inside `project` the new directory and the copied template
\* files remain.
C8_MissingSectionNoWrite ==
    UpdateCfgReached =>
        /\ raised = "KeyError" <=> "CLI" \notin DOMAIN pre_store.sections
        /\ raised = "KeyError" =>
              /\ "write" \notin Events(run_log)
              /\ CurDir.cfg = pre_store
              /\ CurDir.exists
              /\ CurDir.copied = cur.template_name

\* update_cfg failed on a missing manim.cfg during an interactive run
C8_Witness ==
    /\ UpdateCfgReached
    /\ raised = "KeyError"
    /\ ~pre_store.exists
    /\ op = "confirm"

DefaultRunOnNewName ==
    /\ op = "project"
    /\ cur.default_settings
    /\ ~pre_dirs[cur.project_name].exists

\* C9: `project --default` on a new name does mkdir, then the template copy,
\* then the config write, with no confirmation prompt; when the copied
\* manim.cfg has the CLI section the write happens and the section ends with
\* frame_rate=30, background_color=BLACK, background_opacity=1,
\* scene_names=Default, pixel_width=854, pixel_height=480, for every template.
C9_DefaultProject ==
    DefaultRunOnNewName =>
        /\ "confirm" \notin Events(run_log)
        /\ run_log \in {<<"mkdir", "copy_template_files", "write">>,
                        <<"mkdir", "copy_template_files">>}
        /\ "CLI" \in DOMAIN pre_store.sections =>
              /\ raised = "none"
              /\ run_log = <<"mkdir", "copy_template_files", "write">>
              /\ LET cli == CurDir.cfg.sections["CLI"]
                 IN  /\ cli["frame_rate"] = "30"
                     /\ cli["background_color"] = "BLACK"
                     /\ cli["background_opacity"] = "1"
                     /\ cli["scene_names"] = "Default"
                     /\ cli["pixel_width"] = "854"
                     /\ cli["pixel_height"] = "480"

\* a default run with the non-default template, over a template manim.cfg
\* that set another frame_rate
C9_Witness ==
    /\ DefaultRunOnNewName
    /\ raised = "none"
    /\ cur.template_name = "MovingCamera"
    /\ pre_store.sections["CLI"] # NoOptions
    /\ CurDir.cfg.sections["CLI"]["media_dir"] = "./media"

-----------------------------------------------------------------------------
(* The `scene` command. Text is a sequence of tokens; template_name +       *)
(* "Template" is the two tokens <<template_name, "Template">>.              *)

MaxInsertions == 2

SceneNames == {<<"MyScene">>, <<"Intro", "Scene">>}

\* what (get_template_path() / f"{template_name}.mtp").read_text() can return
StubTexts(template_name) ==
    IF template_name = "Default"
    THEN {<<"class", "Default", "Template", "(Scene):">>,
          <<"class", "Default", "Template", "#", "Default", "Template">>}
    ELSE {<<"class", "Default", "Template", "MovingCamera", "Template">>,
          <<"class", "MovingCamera", "Scene">>}

\* scene.replace(old, new) without the count
replace_all(text, old, new) ==
    LET RECURSIVE go(_)
        go(rest) ==
            IF Len(rest) < Len(old) THEN rest
            ELSE IF SubSeq(rest, 1, Len(old)) = old
                 THEN new \o go(SubSeq(rest, Len(old) + 1, Len(rest)))
                 ELSE <<Head(rest)>> \o go(Tail(rest))
    IN  go(text)

\* scene.replace(old, new, 1)
RECURSIVE replace_first(_, _, _)
replace_first(text, old, new) ==
    IF Len(text) < Len(old) THEN text
    ELSE IF SubSeq(text, 1, Len(old)) = old
         THEN new \o SubSeq(text, Len(old) + 1, Len(text))
         ELSE <<Head(text)>> \o replace_first(Tail(text), old, new)

\* lines 165-166: the stub with the template's scene name replaced
RenderScene(stub, template_name, scene_name) ==
    replace_first(stub, <<template_name, "Template">>, scene_name)

Separator == <<"\n", "\n", "\n">>

\* path.is_file()
is_file(fs, path) == fs[path].exists

\* with path.open("a") as f: f.write(text)  -- append mode creates the file
\* when it does not exist
open_append_write(file, text) ==
    [exists |-> TRUE, content |-> (IF file.exists THEN file.content ELSE <<>>) \o text]

\* path.write_text(text)
write_text(file, text) == [exists |-> TRUE, content |-> text]

ImportLine == <<"from manim import *", "\n">>

\* add_import_statement(file): the import line is put in front of the content
add_import_statement(file) == [file EXCEPT !.content = ImportLine \o @]

InitialContents == {<<>>, <<"import", "numpy", "\n">>}

InitScene ==
    /\ CfgIdle
    /\ ProjectIdle
    /\ files \in [TargetPaths -> {AbsentTarget} \cup
                     {[exists |-> TRUE, content |-> c] : c \in InitialContents}]
    /\ imports = [p \in TargetPaths |-> 0]
    /\ created = [p \in TargetPaths |-> 0]
    /\ original = [p \in TargetPaths |-> files[p].content]
    /\ first = [p \in TargetPaths |-> <<>>]
    /\ last = NoScene
    /\ insertions = 0
    /\ op = "init"
    /\ raised = "none"

\* bookkeeping shared by the three branches of `scene`
Inserted(scene_name, file_name, template_name, stub, target, after) ==
    /\ last' = [scene_name |-> scene_name, file_name |-> file_name,
                template_name |-> template_name, stub |-> stub, target |-> target,
                existed |-> files[target].exists, before |-> files[target].content]
    /\ files' = [files EXCEPT ![target] = after]
    /\ created' = [created EXCEPT ![target] = IF files[target].exists THEN @ ELSE @ + 1]
    /\ first' = [first EXCEPT ![target] = IF @ = <<>> THEN after.content ELSE @]
    /\ insertions' = insertions + 1
    /\ raised' = "none"
    /\ op' = "scene"
    /\ UNCHANGED <<original, cfgVars, projectVars>>

\* `scene SCENE FILE`, FILE exists: the scene is appended
SceneAppend ==
    \E scene_name \in SceneNames, file_name \in ExplicitFileNames,
       template_name \in TemplateNames :
      \E stub \in StubTexts(template_name) :
        LET target == PathStr(TargetOf(file_name))
            scene  == RenderScene(stub, template_name, scene_name)
        IN  /\ insertions < MaxInsertions
            /\ is_file(files, target)
            /\ Inserted(scene_name, file_name, template_name, stub, target,
                        open_append_write(files[target], Separator \o scene))
            /\ UNCHANGED imports

\* `scene SCENE FILE`, FILE does not exist: the file is written and the
\* import statement added
SceneCreate ==
    \E scene_name \in SceneNames, file_name \in ExplicitFileNames,
       template_name \in TemplateNames :
      \E stub \in StubTexts(template_name) :
        LET target == PathStr(TargetOf(file_name))
            scene  == RenderScene(stub, template_name, scene_name)
        IN  /\ insertions < MaxInsertions
            /\ ~is_file(files, target)
            /\ Inserted(scene_name, file_name, template_name, stub, target,
                        add_import_statement(
                            write_text(files[target], Separator \o scene)))
            /\ imports' = [imports EXCEPT ![target] = @ + 1]

\* `scene SCENE`: main.py is opened for appending
SceneDefault ==
    \E scene_name \in SceneNames, template_name \in TemplateNames :
      \E stub \in StubTexts(template_name) :
        LET target == PathStr(MainPy)
            scene  == RenderScene(stub, template_name, scene_name)
        IN  /\ insertions < MaxInsertions
            /\ Inserted(scene_name, NoFileName, template_name, stub, target,
                        open_append_write(files[target], Separator \o scene))
            /\ UNCHANGED imports

NextScene ==
    \/ SceneAppend
    \/ SceneCreate
    \/ SceneDefault

SpecScene == InitScene /\ [][NextScene]_vars

-----------------------------------------------------------------------------
(* Properties of the `scene` command, checked under SpecScene *)

\* C3: `scene` without a file name, main.py missing: the command fails with a
\* not-found error and main.py is not created.
C3_DefaultTargetMustExist ==
    (op = "scene" /\ last.file_name = NoFileName /\ ~last.existed) =>
        /\ raised = "FileNotFoundError"
        /\ ~files[PathStr(MainPy)].exists

\* C4: add_import_statement has run on a target exactly once for every
\* insertion that found the target missing and created it, and never for an
\* insertion that appended.
C4_ImportOncePerCreation ==
    \A p \in TargetPaths : imports[p] = created[p]

OccursAt(text, old, i) ==
    /\ i + Len(old) - 1 <= Len(text)
    /\ SubSeq(text, i, i + Len(old) - 1) = old

\* text is stub with its first occurrence of old, if any, replaced by new
FirstOccurrenceReplaced(stub, old, new, text) ==
    LET at == {i \in 1 .. Len(stub) : OccursAt(stub, old, i)}
    IN  IF at = {} THEN text = stub
        ELSE \E i \in at :
                /\ \A j \in at : i <= j
                /\ text = SubSeq(stub, 1, i - 1) \o new
                          \o SubSeq(stub, i + Len(old), Len(stub))

IsPrefix(s, text) == Len(s) <= Len(text) /\ SubSeq(text, 1, Len(s)) = s

\* C10: an insertion into an existing target leaves the previous content
\* followed by the three-newline separator and the stub in which only the
\* first occurrence of template_name + "Template" is replaced by the scene
\* name (the stub as it is when there is none); the content a target started
\* with and the text of the first insertion stay a prefix of it.
C10_AppendKeepsContent ==
    /\ (op = "scene" /\ last.existed) =>
          LET content == files[last.target].content
              kept    == last.before \o Separator
          IN  /\ raised = "none"
              /\ IsPrefix(kept, content)
              /\ FirstOccurrenceReplaced(
                    last.stub, <<last.template_name, "Template">>, last.scene_name,
                    SubSeq(content, Len(kept) + 1, Len(content)))
    /\ \A p \in TargetPaths :
          /\ IsPrefix(original[p], files[p].content)
          /\ IsPrefix(first[p], files[p].content)

\* a second insertion into a target that had content at the start, with a
\* stub that holds the placeholder twice
C10_Witness ==
    /\ op = "scene"
    /\ last.existed
    /\ insertions = MaxInsertions
    /\ original[last.target] # <<>>
    /\ first[last.target] # <<>>
    /\ first[last.target] # files[last.target].content
    /\ \E i, j \in 1 .. Len(last.stub) :
          /\ i < j
          /\ OccursAt(last.stub, <<last.template_name, "Template">>, i)
          /\ OccursAt(last.stub, <<last.template_name, "Template">>, j)

====
